---- MODULE Spec2Model ----
(***************************************************************************)
(* Model of the herald ranking engine (src/src/ranking_engine/ranker.py),  *)
(* its citation lookup client (src/src/utils/citation_fetcher.py) and the  *)
(* part of the configuration loader they read                              *)
(* (src/src/utils/config_loader.py).                                       *)
(*                                                                         *)
(* Scores are fixed-point numbers with three decimals: 1000 stands for the *)
(* float 1.0.  Weights are counted in tenths: 5 stands for 0.5.  A total   *)
(* score is a sum of weight * score and so is counted in ten-thousandths.  *)
(* Python's None is the empty tuple for optional integers and the empty    *)
(* string for optional strings (the code tests both for truthiness only).  *)
(***************************************************************************)
EXTENDS Integers, Sequences, FiniteSets, TLC

VARIABLES
    articles,   \* the caller's documents (list of dicts), mutated in place
    config,     \* ConfigLoader.config, the part the ranker reads
    fetcher,    \* the CitationFetcher instance, or NoFetcher
    now,        \* time.time()
    pc,         \* position of the running call
    op,         \* frame of the running rank_articles / get_citation_count call
    cur,        \* frame of get_citation_count: the article and the sub-lookup
    ret,        \* return value of get_citation_count
    result,     \* what the last call returned to the caller
    netlog,     \* requests.get calls issued since the running call started
    prev_call,  \* start time of the previous requests.get of this fetcher
    written,    \* articles whose citation_count the ranker has written
    pipe,       \* frame of the running or last search_and_rank call
    conf,       \* the file the ConfigLoader was given and its last get call
    threads     \* callers inside _rate_limit of the shared fetcher

vars == <<articles, config, fetcher, now, pc, op, cur, ret, result, netlog,
          prev_call, written, pipe, conf, threads>>

----------------------------------------------------------------------------
(* Bounds of the model. *)

MaxDocs == 2
MaxCount == 1
MaxTime == 3

----------------------------------------------------------------------------
(* Values. *)

None == <<>>
Some(x) == <<x>>
IsNone(x) == x = <<>>
Val(x) == x[1]

SCALE == 1000

Signals == {"relevance", "recency", "citations"}

RECURSIVE SumOver(_, _)
SumOver(S, f) ==
    IF S = {} THEN 0
    ELSE LET x == CHOOSE y \in S : TRUE IN f[x] + SumOver(S \ {x}, f)

Min(a, b) == IF a < b THEN a ELSE b
Max(a, b) == IF a > b THEN a ELSE b

----------------------------------------------------------------------------
(* ConfigLoader: the defaults and the getters the ranker uses. *)

DefaultWeights == [relevance |-> 5, recency |-> 3, citations |-> 2]

DefaultConfig ==
    [ranking  |-> [weights |-> DefaultWeights, recency_decay_days |-> 730],
     citation |-> [enabled |-> TRUE, rate_limit_delay |-> 0,
                   normalization_max_citations |-> 1000]]

\* The keys of the default configuration whose value is a dict.
DictKeys == {"ranking", "weights", "citation"}

\* A value that is no dict, held where the defaults hold a dict (in YAML,
\* "ranking: 5" or a section with nothing under it).
Scalar(v) == [scalar |-> v]

\* isinstance(value, dict), for the value held at key.  Dicts are records;
\* the values at the other keys are numbers and booleans.
IsDict(key, value) == key \in DictKeys /\ "scalar" \notin DOMAIN value

\* _deep_merge(base, override)
RECURSIVE deep_merge(_, _)
deep_merge(base, override) ==
    [key \in DOMAIN base \cup DOMAIN override |->
        IF key \notin DOMAIN override THEN base[key]
        ELSE IF /\ key \in DOMAIN base
                /\ IsDict(key, base[key])
                /\ IsDict(key, override[key])
        THEN deep_merge(base[key], override[key])
        ELSE override[key]]

\* load: user_config is None when there is no file or reading it raises,
\* else the dict the file holds.  No value is examined.
load(user_config) ==
    IF user_config = None THEN DefaultConfig
    ELSE deep_merge(DefaultConfig, Val(user_config))

\* The loop of get over the segments of the dot-path: value is what the
\* segments so far led to, isdict whether it is a dict.
RECURSIVE get_from(_, _, _, _)
get_from(value, isdict, keys, default) ==
    IF keys = <<>> THEN value
    ELSE LET k == Head(keys)
         IN  IF isdict /\ k \in DOMAIN value
             THEN get_from(value[k], IsDict(k, value[k]), Tail(keys), default)
             ELSE default

\* get(key, default); key is the dot-path as the sequence of its segments.
get(cfg, key, default) == get_from(cfg, TRUE, key, default)

get_ranking_weights(cfg) == get(cfg, <<"ranking", "weights">>, DefaultWeights)
is_citation_enabledAlways(cfg) == TRUE

is_citation_enabled(cfg) == get(cfg, <<"citation", "enabled">>, TRUE)
get_citation_rate_limit(cfg) == get(cfg, <<"citation", "rate_limit_delay">>, 0)
get_max_citations_for_normalization(cfg) ==
    get(cfg, <<"citation", "normalization_max_citations">>, 1000)
get_recency_decay_days(cfg) ==
    get(cfg, <<"ranking", "recency_decay_days">>, 730)

----------------------------------------------------------------------------
(* Documents.  A document is a record of the fields the engine reads:      *)
(*   doi, arxiv_id  strings, "" when the key is absent, None or empty;     *)
(*   title          a sequence of characters, << >> when absent or empty;  *)
(*   published      [tag, day]: tag "absent" (no key), "naive" (an ISO     *)
(*                  string without offset for day number day), "aware"     *)
(*                  (an ISO string with 'Z' or an offset), "garbage" (a    *)
(*                  string that is no ISO date), "datetime" (a datetime    *)
(*                  object, as the arXiv collector delivers it), "nonstr"  *)
(*                  (None or a number, a value without .replace);          *)
(*   citation_count None or Some(count).                                   *)

Today == 1460

NoDate(tag) == [tag |-> tag, day |-> 0]
IsoDate(day) == [tag |-> "naive", day |-> day]
IsoDateZ(day) == [tag |-> "aware", day |-> day]

Doc(doi, arxiv_id, title, published, citation_count) ==
    [doi |-> doi, arxiv_id |-> arxiv_id, title |-> title,
     published |-> published, citation_count |-> citation_count]

TitleAb == <<"A", "b">>

----------------------------------------------------------------------------
(* The numeric functions of the ranker, in fixed point. *)

\* round(1000 * exp(-k/2)) for k in -2..8; smaller results are cut to 0 and
\* larger ones to the value at k = -2.  The documents and decay constants of
\* the model have whole k in -2..8.
ExpHalves(k) ==
    CASE k <= -2 -> 2718
      [] k = -1 -> 1649
      [] k = 0  -> 1000
      [] k = 1  -> 607
      [] k = 2  -> 368
      [] k = 3  -> 223
      [] k = 4  -> 135
      [] k = 5  -> 82
      [] k = 6  -> 50
      [] k = 7  -> 30
      [] k = 8  -> 18
      [] OTHER  -> 0

\* np.exp(-days_old / decay_days), decay_days # 0, on half units of the
\* quotient days_old / decay_days.
NpExpNeg(days_old, decay_days) ==
    IF decay_days > 0
    THEN ExpHalves((2 * days_old) \div decay_days)
    ELSE ExpHalves(((-2) * days_old) \div (-decay_days))

\* round(1000 * math.log(n)), n >= 1.
LogMilli(n) ==
    CASE n = 1 -> 0
      [] n = 2 -> 693
      [] n = 3 -> 1099
      [] n = 4 -> 1386
      [] n = 5 -> 1609
      [] n = 6 -> 1792
      [] n = 7 -> 1946
      [] n = 8 -> 2079
      [] n = 9 -> 2197
      [] n = 10 -> 2303
      [] n = 1001 -> 6909

\* The embedding collaborator and sklearn's cosine_similarity: a fixed
\* similarity of the query text and the article's title text.
Similarity(query, article) ==
    IF article.title = <<>> THEN 200 ELSE 800

\* _calculate_relevance_score, called only with a truthy query.
RelevanceScore(query, article) == Similarity(query, article)

\* _calculate_recency_score raises: a published value without .replace
\* (AttributeError is not among the caught exceptions), or a zero
\* decay_days (ZeroDivisionError) once the date has parsed.
RecencyRaises(article, cfg) ==
    \/ article.published.tag = "nonstr"
    \/ /\ article.published.tag = "naive"
       /\ get_recency_decay_days(cfg) = 0

\* _calculate_recency_score: 0.0 without a published key, on ValueError
\* (no ISO string) and on TypeError (a datetime object given to
\* str.replace's place, or an offset-aware date subtracted from utcnow()).
RecencyScore(article, cfg) ==
    IF article.published.tag = "naive"
    THEN NpExpNeg(Today - article.published.day, get_recency_decay_days(cfg))
    ELSE 0

NormalizedCitationsUnclamped(count, max_citations) ==
    (SCALE * LogMilli(1 + count)) \div LogMilli(1 + max_citations)

\* min(1.0, max(0.0, log(1 + count) / log(1 + max_citations)))
NormalizedCitations(count, max_citations) ==
    Min(SCALE, Max(0, (SCALE * LogMilli(1 + count))
                          \div LogMilli(1 + max_citations)))

CitationScoreNoneAsOne(citation_count, cfg) ==
    IF ~IsNone(citation_count) /\ Val(citation_count) = 0
    THEN 0
    ELSE NormalizedCitations(IF IsNone(citation_count) THEN 1
                             ELSE Val(citation_count),
                             get_max_citations_for_normalization(cfg))

\* _calculate_citation_score from line 170 on: citation_count is the cached
\* or the fetched count, None when there is none.
CitationScore(citation_count, cfg) ==
    IF IsNone(citation_count) \/ Val(citation_count) = 0
    THEN 0
    ELSE NormalizedCitations(Val(citation_count),
                             get_max_citations_for_normalization(cfg))

\* math.log(1 + citation_count) of line 175 raises ValueError for a negative
\* count.
CitationRaises(citation_count) ==
    ~IsNone(citation_count) /\ Val(citation_count) < 0

\* scores[factor] raises KeyError for a factor that is no signal.
TotalRaises(weights) == ~(DOMAIN weights \subseteq Signals)

TotalScoreWithDefaults(scores, weights) ==
    SumOver(Signals,
            [f \in Signals |-> scores[f] * (IF f \in DOMAIN weights
                                            THEN weights[f]
                                            ELSE DefaultWeights[f])])

\* sum(scores[factor] * weight for factor, weight in weights.items())
TotalScore(scores, weights) ==
    SumOver(DOMAIN weights,
            [f \in DOMAIN weights |-> scores[f] * weights[f]])

\* sorted(scored_articles, key=score, reverse=True): a stable sort, pairs of
\* equal score keep their order.
RECURSIVE InsertDescUnstable(_, _)
InsertDescUnstable(sorted, pair) ==
    IF sorted = <<>> THEN <<pair>>
    ELSE IF Head(sorted).score > pair.score
         THEN <<Head(sorted)>> \o InsertDescUnstable(Tail(sorted), pair)
         ELSE <<pair>> \o sorted

RECURSIVE InsertDesc(_, _)
InsertDesc(sorted, pair) ==
    IF sorted = <<>> THEN <<pair>>
    ELSE IF Head(sorted).score >= pair.score
         THEN <<Head(sorted)>> \o InsertDesc(Tail(sorted), pair)
         ELSE <<pair>> \o sorted

RECURSIVE SortedDesc(_)
SortedDesc(scored) ==
    IF scored = <<>> THEN <<>>
    ELSE InsertDesc(SortedDesc(SubSeq(scored, 1, Len(scored) - 1)),
                    scored[Len(scored)])

----------------------------------------------------------------------------
(* CitationFetcher: the registry's answers and what each sub-lookup makes  *)
(* of them.                                                                *)

MethodsArxivFirst == <<"arxiv_id", "doi", "title">>

Methods == <<"doi", "arxiv_id", "title">>

\* A chain that tries every kind of identifier, present or not.
PresentAlways(article, method) == TRUE

\* The conditions of lines 53, 60 and 67: the key is present and truthy.
Present(article, method) ==
    CASE method = "doi"      -> article.doi # ""
      [] method = "arxiv_id" -> article.arxiv_id # ""
      [] method = "title"    -> article.title # <<>>

NextMethodRetry(article, k) ==
    IF k > 1 /\ Present(article, Methods[k - 1])
    THEN Methods[k - 1]
    ELSE IF \E j \in k..Len(Methods) : Present(article, Methods[j])
    THEN Methods[CHOOSE j \in k..Len(Methods) :
                    /\ Present(article, Methods[j])
                    /\ \A h \in k..(j - 1) : ~Present(article, Methods[h])]
    ELSE "none"

\* The first sub-lookup, at position k of the chain or later, that the
\* article has an identifier for; "none" when the chain is exhausted.
NextMethod(article, k) ==
    IF \E j \in k..Len(Methods) : Present(article, Methods[j])
    THEN Methods[CHOOSE j \in k..Len(Methods) :
                    /\ Present(article, Methods[j])
                    /\ \A h \in k..(j - 1) : ~Present(article, Methods[h])]
    ELSE "none"

MethodIndex(method) == CHOOSE j \in 1..Len(Methods) : Methods[j] = method

\* str.lower()
LowerChar(c) ==
    CASE c = "A" -> "a"
      [] c = "B" -> "b"
      [] OTHER   -> c

Lower(title) == [j \in 1..Len(title) |-> LowerChar(title[j])]

\* What requests.get and response.json() can deliver.  status 0 stands for
\* an exception (timeout, transport failure, a body that is no JSON);
\* field tells whether the JSON carries citationCount: "value" (count),
\* "missing" (no such key) or "null"; hit and title describe the first
\* paper of a search answer ("" for a paper without title).
Response(status, field, count, hit, title) ==
    [status |-> status, field |-> field, count |-> count, hit |-> hit,
     title |-> title]

HitTitles == {<<"A", "b">>, <<"a", "B">>, <<"A">>, <<>>}

Failures ==
    {Response(st, "missing", 0, FALSE, <<>>) : st \in {404, 500, 0}}

\* The JSON objects of a paper: with a count, without the key, with null.
Papers ==
    {<<"value", c>> : c \in 0..MaxCount} \cup {<<"missing", 0>>, <<"null", 0>>}

LookupResponses ==
    {Response(200, p[1], p[2], FALSE, <<>>) : p \in Papers} \cup Failures

SearchResponses ==
    {Response(200, p[1], p[2], TRUE, t) : p \in Papers, t \in HitTitles}
        \cup {Response(200, "missing", 0, FALSE, <<>>)}
        \cup Failures

\* The registry is not bound to send a count: citationCount can hold any
\* JSON value.  -1 stands for the values that are no non-negative integer.
OddCounts == {-1}

OddLookupResponses ==
    {Response(200, "value", c, FALSE, <<>>) : c \in OddCounts}

OddSearchResponses ==
    {Response(200, "value", c, TRUE, TitleAb) : c \in OddCounts}

Responses(method) ==
    IF method = "title" THEN SearchResponses \cup OddSearchResponses
    ELSE LookupResponses \cup OddLookupResponses

CountFieldMissingNone(resp) ==
    CASE resp.field = "value"   -> Some(resp.count)
      [] resp.field = "missing" -> None
      [] resp.field = "null"    -> None

\* data.get('citationCount', 0)
CountField(resp) ==
    CASE resp.field = "value"   -> Some(resp.count)
      [] resp.field = "missing" -> Some(0)
      [] resp.field = "null"    -> None

\* _fetch_by_doi and _fetch_by_arxiv_id after requests.get
FetchById(resp) ==
    IF resp.status = 200 THEN CountField(resp) ELSE None

FetchByTitlePartial(resp, title) ==
    IF /\ resp.status = 200
       /\ resp.hit
       /\ Len(resp.title) <= Len(title)
       /\ Lower(resp.title) = SubSeq(Lower(title), 1, Len(resp.title))
    THEN CountField(resp)
    ELSE None

\* _fetch_by_title after requests.get
FetchByTitle(resp, title) ==
    IF /\ resp.status = 200
       /\ resp.hit
       /\ Lower(resp.title) = Lower(title)
    THEN CountField(resp)
    ELSE None

Fetched(method, resp, article) ==
    IF method = "title" THEN FetchByTitle(resp, article.title)
    ELSE FetchById(resp)

----------------------------------------------------------------------------
(* The state machine. *)

Epoch == 10

IdleOp ==
    [kind |-> "none", n |-> 0, query |-> "", arg |-> <<>>, weights |-> <<>>,
     weights_from |-> "none", i |-> 0, scored |-> <<>>, scores |-> <<>>]

IdleCur == [article |-> 0, method |-> "none"]

\* The ConfigLoader of a state whose configuration is given, before any
\* get call of the model.
IdleConf ==
    [file |-> [kind |-> "given"], path |-> <<>>, default |-> 0, value |-> 0,
     called |-> FALSE]

\* The callers that share the fetcher; each is outside _rate_limit.
Threads == {1, 2}

IdleThreads ==
    [t \in Threads |-> [pc |-> "out", current_time |-> 0, wake |-> 0]]

\* No call of the pipeline has been made.
IdlePipe ==
    [call |-> "none", stage |-> "none", query |-> "", weights |-> <<>>,
     source |-> <<>>, i |-> 0, failed |-> {}, result |-> <<>>]

\* No call is running: the caller may start one (until time Epoch + MaxTime,
\* where the model ends).
Ready == pc \in {"idle", "done", "raised"}

\* CitationFetcher.__init__
NewCitationFetcher(rate_limit_delay) ==
    [rate_limit_delay |-> rate_limit_delay, last_request_time |-> 0]

\* ArticleRanker.__init__ without a citation_fetcher argument.
RankerFetcher(cfg) ==
    IF is_citation_enabled(cfg)
    THEN Some(NewCitationFetcher(get_citation_rate_limit(cfg)))
    ELSE None

\* ArticleRanker.__init__ with the citation_fetcher argument (None when
\* omitted): a client that is passed is kept, whatever the configuration.
RankerFetcherGiven(cfg, citation_fetcher) ==
    IF citation_fetcher = None THEN RankerFetcher(cfg) ELSE citation_fetcher

DocLists(pool) == UNION {[1..n -> pool] : n \in 0..MaxDocs}

\* The state after construction, for a citation_fetcher argument among
\* given.
InitGiven(configs, pool, given) ==
    /\ config \in configs
    /\ articles \in DocLists(pool)
    /\ fetcher \in {RankerFetcherGiven(config, g) : g \in given}
    /\ now = Epoch
    /\ pc = "idle"
    /\ op = IdleOp
    /\ cur = IdleCur
    /\ ret = None
    /\ result = None
    /\ netlog = <<>>
    /\ prev_call = None
    /\ written = {}
    /\ pipe = IdlePipe
    /\ conf = IdleConf
    /\ threads = IdleThreads

InitWith(configs, pool) ==
    /\ config \in configs
    /\ articles \in DocLists(pool)
    /\ fetcher = RankerFetcher(config)
    /\ now = Epoch
    /\ pc = "idle"
    /\ op = IdleOp
    /\ cur = IdleCur
    /\ ret = None
    /\ result = None
    /\ netlog = <<>>
    /\ prev_call = None
    /\ written = {}
    /\ pipe = IdlePipe
    /\ conf = IdleConf
    /\ threads = IdleThreads

RankArticlesConfigFirst(n, query, weights) ==
    /\ Ready
    /\ now < Epoch + MaxTime
    /\ netlog' = <<>>
    /\ ret' = None
    /\ cur' = IdleCur
    /\ IF n = 0
       THEN /\ pc' = "done"
            /\ result' = Some(<<>>)
            /\ op' = [IdleOp EXCEPT !.kind = "rank", !.query = query,
                                    !.arg = weights,
                                    !.weights_from =
                                        IF weights # None
                                           /\ DOMAIN Val(weights) # {}
                                        THEN "argument" ELSE "config"]
       ELSE /\ pc' = "score"
            /\ result' = None
            /\ op' = [kind |-> "rank", n |-> n, query |-> query,
                      arg |-> weights,
                      weights |-> IF weights # None /\ DOMAIN Val(weights) # {}
                                  THEN Val(weights)
                                  ELSE get_ranking_weights(config),
                      weights_from |-> IF weights # None
                                          /\ DOMAIN Val(weights) # {}
                                       THEN "argument" ELSE "config",
                      i |-> 1, scored |-> <<>>, scores |-> <<>>]
    /\ UNCHANGED <<articles, config, fetcher, now, prev_call, written, pipe,
                   conf, threads>>

\* rank_articles, lines 56-59: the first n documents of the caller are
\* passed; weights is None (omitted) or Some(map).  op.arg keeps the
\* argument as passed, op.weights the map of line 59, and op.weights_from
\* tells whether get_ranking_weights was called for it.
RankArticles(n, query, weights) ==
    /\ Ready
    /\ now < Epoch + MaxTime
    /\ netlog' = <<>>
    /\ ret' = None
    /\ cur' = IdleCur
    /\ IF n = 0
       THEN /\ pc' = "done"
            /\ result' = Some(<<>>)
            /\ op' = [IdleOp EXCEPT !.kind = "rank", !.query = query,
                                    !.arg = weights]
       ELSE /\ pc' = "score"
            /\ result' = None
            /\ op' = [kind |-> "rank", n |-> n, query |-> query,
                      arg |-> weights,
                      weights |-> IF weights # None /\ DOMAIN Val(weights) # {}
                                  THEN Val(weights)
                                  ELSE get_ranking_weights(config),
                      weights_from |-> IF weights # None
                                          /\ DOMAIN Val(weights) # {}
                                       THEN "argument" ELSE "config",
                      i |-> 1, scored |-> <<>>, scores |-> <<>>]
    /\ UNCHANGED <<articles, config, fetcher, now, prev_call, written, pipe,
                   conf, threads>>

\* A ranker that skips the keys of the weight map that are no signal.
ScoredLenient(relevance, recency, citations) ==
    LET scores == [relevance |-> relevance, recency |-> recency,
                   citations |-> citations]
        kept == Append(op.scores, scores)
        known == [f \in DOMAIN op.weights \cap Signals |-> op.weights[f]]
        pair == [article |-> op.i, score |-> TotalScore(scores, known)]
        scored == Append(op.scored, pair)
    IN  IF op.i = op.n
        THEN /\ pc' = "done"
             /\ op' = [op EXCEPT !.scored = scored, !.scores = kept]
             /\ result' = Some(SortedDesc(scored))
        ELSE /\ pc' = "score"
             /\ op' = [op EXCEPT !.scored = scored, !.scores = kept,
                                 !.i = op.i + 1]
             /\ result' = None

\* _calculate_score from line 96 on and the loop of rank_articles (lines
\* 62-66) for the article in turn, given its three scores: the total is
\* formed (or KeyError ends the call), the pair is appended, and after the
\* last article the list is sorted and returned.  op.scores keeps the
\* scores dict of line 85 of each article scored in the call.
Scored(relevance, recency, citations) ==
    LET scores == [relevance |-> relevance, recency |-> recency,
                   citations |-> citations]
        kept == Append(op.scores, scores)
    IN  IF TotalRaises(op.weights)
        THEN /\ pc' = "raised"
             /\ op' = [op EXCEPT !.scores = kept]
             /\ result' = None
        ELSE LET pair == [article |-> op.i,
                          score |-> TotalScore(scores, op.weights)]
                 scored == Append(op.scored, pair)
             IN  IF op.i = op.n
                 THEN /\ pc' = "done"
                      /\ op' = [op EXCEPT !.scored = scored,
                                          !.scores = kept]
                      /\ result' = Some(SortedDesc(scored))
                 ELSE /\ pc' = "score"
                      /\ op' = [op EXCEPT !.scored = scored,
                                          !.scores = kept, !.i = op.i + 1]
                      /\ result' = None

\* The relevance and recency scores of lines 87-92.
RelevanceOf(article) ==
    IF op.query # "" THEN RelevanceScore(op.query, article) ELSE 0

\* _calculate_relevance_score has no handler: an exception of the embedding
\* collaborator (predict, lines 114-115) leaves rank_articles.
RelevanceRaises(query, embedded) == query # "" /\ ~embedded

\* A ranker that looks a count up only if the weight map weighs citations.
CalculateScoreLazy(embedded) ==
    /\ pc = "score"
    /\ LET article == articles[op.i]
           weighted == /\ "citations" \in DOMAIN op.weights
                       /\ op.weights["citations"] # 0
       IN  IF RelevanceRaises(op.query, embedded)
              \/ RecencyRaises(article, config)
           THEN /\ pc' = "raised"
                /\ UNCHANGED <<op, result, cur>>
           ELSE IF ~is_citation_enabled(config) \/ fetcher = None
           THEN /\ Scored(RelevanceOf(article),
                          RecencyScore(article, config), 0)
                /\ cur' = cur
           ELSE IF CitationRaises(article.citation_count)
           THEN /\ pc' = "raised"
                /\ UNCHANGED <<op, result, cur>>
           ELSE IF article.citation_count # None \/ ~weighted
           THEN /\ Scored(RelevanceOf(article),
                          RecencyScore(article, config),
                          CitationScore(article.citation_count, config))
                /\ cur' = cur
           ELSE /\ pc' = "get"
                /\ cur' = [article |-> op.i, method |-> "none"]
                /\ UNCHANGED <<op, result>>
    /\ UNCHANGED <<articles, config, fetcher, now, ret, netlog, prev_call,
                   written, pipe, conf, threads>>

\* _calculate_score, lines 85-94, with _calculate_citation_score up to the
\* call of get_citation_count in line 166.  embedded tells whether the
\* embedding collaborator returns (TRUE) or raises (FALSE) when asked.
CalculateScore(embedded) ==
    /\ pc = "score"
    /\ LET article == articles[op.i]
       IN  IF RelevanceRaises(op.query, embedded)
              \/ RecencyRaises(article, config)
           THEN /\ pc' = "raised"
                /\ UNCHANGED <<op, result, cur>>
           ELSE IF ~is_citation_enabled(config) \/ fetcher = None
           THEN /\ Scored(RelevanceOf(article),
                          RecencyScore(article, config), 0)
                /\ cur' = cur
           ELSE IF CitationRaises(article.citation_count)
           THEN /\ pc' = "raised"
                /\ UNCHANGED <<op, result, cur>>
           ELSE IF article.citation_count # None
           THEN /\ Scored(RelevanceOf(article),
                          RecencyScore(article, config),
                          CitationScore(article.citation_count, config))
                /\ cur' = cur
           ELSE /\ pc' = "get"
                /\ cur' = [article |-> op.i, method |-> "none"]
                /\ UNCHANGED <<op, result>>
    /\ UNCHANGED <<articles, config, fetcher, now, ret, netlog, prev_call,
                   written, pipe, conf, threads>>

\* A caller other than the ranker calls get_citation_count(articles[a]).
CallGetCitationCount(a) ==
    /\ Ready
    /\ now < Epoch + MaxTime
    /\ fetcher # None
    /\ a \in 1..Len(articles)
    /\ pc' = "get"
    /\ op' = [IdleOp EXCEPT !.kind = "get"]
    /\ cur' = [article |-> a, method |-> "none"]
    /\ ret' = None
    /\ result' = None
    /\ netlog' = <<>>
    /\ UNCHANGED <<articles, config, fetcher, now, prev_call, written, pipe,
                   conf, threads>>

GetCitationCountNoCache ==
    /\ pc = "get"
    /\ LET article == articles[cur.article]
           m == NextMethod(article, 1)
       IN  /\ ret' = None
           /\ cur' = [cur EXCEPT !.method = m]
           /\ pc' = IF m = "none" THEN "got" ELSE "fetch"
    /\ UNCHANGED <<articles, config, fetcher, now, op, result, netlog,
                   prev_call, written, pipe, conf, threads>>

GetCitationCountTruthyCache ==
    /\ pc = "get"
    /\ LET article == articles[cur.article]
       IN  IF article.citation_count # None
              /\ Val(article.citation_count) # 0
           THEN /\ ret' = article.citation_count
                /\ pc' = "got"
                /\ cur' = cur
           ELSE LET m == NextMethod(article, 1)
                IN  /\ ret' = None
                    /\ cur' = [cur EXCEPT !.method = m]
                    /\ pc' = IF m = "none" THEN "got" ELSE "fetch"
    /\ UNCHANGED <<articles, config, fetcher, now, op, result, netlog,
                   prev_call, written, pipe, conf, threads>>

\* get_citation_count, lines 45-53 (and 60, 67, 72-73 when the article has
\* no DOI): the cached count, or the first sub-lookup of the chain.
GetCitationCount ==
    /\ pc = "get"
    /\ LET article == articles[cur.article]
       IN  IF article.citation_count # None
           THEN /\ ret' = article.citation_count
                /\ pc' = "got"
                /\ cur' = cur
           ELSE LET m == NextMethod(article, 1)
                IN  /\ ret' = None
                    /\ cur' = [cur EXCEPT !.method = m]
                    /\ pc' = IF m = "none" THEN "got" ELSE "fetch"
    /\ UNCHANGED <<articles, config, fetcher, now, op, result, netlog,
                   prev_call, written, pipe, conf, threads>>

RateLimitNoSleep(f, current_time) == current_time

\* _rate_limit, lines 29-33: the time at which the caller goes on, after
\* sleeping for what is left of the delay.
RateLimit(f, current_time) ==
    LET time_since_last == current_time - f.last_request_time
    IN  IF time_since_last < f.rate_limit_delay
        THEN current_time + (f.rate_limit_delay - time_since_last)
        ELSE current_time

\* A client that keeps the count it resolved on the document.
FetchCaching(resp) ==
    /\ pc = "fetch"
    /\ resp \in Responses(cur.method)
    /\ LET f == Val(fetcher)
           woken == RateLimit(f, now)
           article == articles[cur.article]
           citation_count == Fetched(cur.method, resp, article)
           m == NextMethod(article, MethodIndex(cur.method) + 1)
       IN  /\ now' = woken
           /\ fetcher' = Some([f EXCEPT !.last_request_time = woken])
           /\ netlog' = Append(netlog, [article |-> cur.article,
                                        method |-> cur.method,
                                        at |-> woken, prev |-> prev_call,
                                        got |-> citation_count])
           /\ prev_call' = Some(woken)
           /\ IF citation_count # None
              THEN /\ ret' = citation_count
                   /\ pc' = "got"
                   /\ cur' = cur
                   /\ articles' = [articles EXCEPT
                                      ![cur.article].citation_count =
                                          citation_count]
              ELSE /\ ret' = None
                   /\ cur' = [cur EXCEPT !.method = m]
                   /\ pc' = IF m = "none" THEN "got" ELSE "fetch"
                   /\ articles' = articles
    /\ UNCHANGED <<config, op, result, written, pipe, conf, threads>>

\* _fetch_by_doi / _fetch_by_arxiv_id / _fetch_by_title for the sub-lookup
\* in turn: the rate limit gate, then requests.get, answered by resp; and
\* get_citation_count returns the count or goes on to the next sub-lookup
\* (lines 56-73).  netlog notes the call and what the sub-lookup returned.
Fetch(resp) ==
    /\ pc = "fetch"
    /\ resp \in Responses(cur.method)
    /\ LET f == Val(fetcher)
           woken == RateLimit(f, now)
           article == articles[cur.article]
           citation_count == Fetched(cur.method, resp, article)
           m == NextMethod(article, MethodIndex(cur.method) + 1)
       IN  /\ now' = woken
           /\ fetcher' = Some([f EXCEPT !.last_request_time = woken])
           /\ netlog' = Append(netlog, [article |-> cur.article,
                                        method |-> cur.method,
                                        at |-> woken, prev |-> prev_call,
                                        got |-> citation_count])
           /\ prev_call' = Some(woken)
           /\ IF citation_count # None
              THEN /\ ret' = citation_count
                   /\ pc' = "got"
                   /\ cur' = cur
              ELSE /\ ret' = None
                   /\ cur' = [cur EXCEPT !.method = m]
                   /\ pc' = IF m = "none" THEN "got" ELSE "fetch"
    /\ UNCHANGED <<articles, config, op, result, written, pipe, conf,
                   threads>>

\* get_citation_count returns to a caller other than the ranker.
ReturnCount ==
    /\ pc = "got"
    /\ op.kind = "get"
    /\ pc' = "done"
    /\ result' = Some(ret)
    /\ UNCHANGED <<articles, config, fetcher, now, op, cur, ret, netlog,
                   prev_call, written, pipe, conf, threads>>

CitationScoreReturnCacheZero ==
    /\ pc = "got"
    /\ op.kind = "rank"
    /\ LET article == articles[op.i]
       IN  /\ articles' = [articles EXCEPT
                              ![op.i].citation_count =
                                  IF ret # None THEN ret ELSE Some(0)]
           /\ written' = written \cup {op.i}
           /\ Scored(RelevanceOf(article), RecencyScore(article, config),
                     CitationScore(ret, config))
    /\ UNCHANGED <<config, fetcher, now, cur, ret, netlog, prev_call, pipe,
                   conf, threads>>

\* _calculate_citation_score, lines 166-177, when get_citation_count has
\* returned: the count is written to the article, then the article is
\* scored, unless the logarithm of line 175 raises.
CitationScoreReturn ==
    /\ pc = "got"
    /\ op.kind = "rank"
    /\ LET article == articles[op.i]
       IN  /\ IF ret # None
              THEN /\ articles' = [articles EXCEPT
                                      ![op.i].citation_count = ret]
                   /\ written' = written \cup {op.i}
              ELSE UNCHANGED <<articles, written>>
           /\ IF CitationRaises(ret)
              THEN /\ pc' = "raised"
                   /\ UNCHANGED <<op, result>>
              ELSE Scored(RelevanceOf(article), RecencyScore(article, config),
                          CitationScore(ret, config))
    /\ UNCHANGED <<config, fetcher, now, cur, ret, netlog, prev_call, pipe,
                   conf, threads>>

\* The caller replaces the client by a fresh CitationFetcher.
FreshFetcher ==
    /\ Ready
    /\ fetcher # None
    /\ fetcher # Some(NewCitationFetcher(Val(fetcher).rate_limit_delay))
    /\ fetcher' = Some(NewCitationFetcher(Val(fetcher).rate_limit_delay))
    /\ prev_call' = None
    /\ UNCHANGED <<articles, config, now, pc, op, cur, ret, result, netlog,
                   written, pipe, conf, threads>>

\* Time passes.
Tick ==
    /\ now < Epoch + MaxTime
    /\ now' = now + 1
    /\ UNCHANGED <<articles, config, fetcher, pc, op, cur, ret, result,
                   netlog, prev_call, written, pipe, conf, threads>>

----------------------------------------------------------------------------
(* HeraldPipeline.search_and_rank: the articles of the document source are *)
(* processed one by one and handed to the ranker.  While the call runs,    *)
(* articles is its list processed_articles.                                *)

\* A search_and_rank that answers a failure of the document source with an
\* empty list.
SearchAndRankSwallow(query, weights, found) ==
    /\ Ready
    /\ pipe.stage \in {"none", "returned", "article", "raised"}
    /\ now < Epoch + MaxTime
    /\ pipe' = [call   |-> "search_and_rank",
                stage  |-> IF found = None \/ Val(found) = <<>>
                           THEN "returned" ELSE "process",
                query  |-> query, weights |-> weights,
                source |-> IF found = None THEN <<>> ELSE Val(found),
                i |-> 1, failed |-> {}, result |-> <<>>]
    /\ articles' = <<>>
    /\ written' = {}
    /\ pc' = "idle"
    /\ op' = IdleOp
    /\ cur' = IdleCur
    /\ ret' = None
    /\ result' = None
    /\ netlog' = <<>>
    /\ UNCHANGED <<config, fetcher, now, prev_call, conf, threads>>

\* search_and_rank, lines 60-76: found is what scraper.search_articles
\* returns, None when it raises (the exception leaves search_and_rank).
SearchAndRank(query, weights, found) ==
    /\ Ready
    /\ pipe.stage \in {"none", "returned", "article", "raised"}
    /\ now < Epoch + MaxTime
    /\ pipe' = [call   |-> "search_and_rank",
                stage  |-> IF found = None THEN "raised"
                           ELSE IF Val(found) = <<>> THEN "returned"
                           ELSE "process",
                query  |-> query, weights |-> weights,
                source |-> IF found = None THEN <<>> ELSE Val(found),
                i |-> 1, failed |-> {}, result |-> <<>>]
    /\ articles' = <<>>
    /\ written' = {}
    /\ pc' = "idle"
    /\ op' = IdleOp
    /\ cur' = IdleCur
    /\ ret' = None
    /\ result' = None
    /\ netlog' = <<>>
    /\ UNCHANGED <<config, fetcher, now, prev_call, conf, threads>>

\* get_article_by_id, lines 120-130: found is what scraper.get_article_by_id
\* returns, None when it raises; processed tells whether the processors
\* return (TRUE) or raise (FALSE).  Nothing is caught, nothing is ranked;
\* in stage "article" the method has returned the article kept as source.
GetArticleById(found, processed) ==
    /\ Ready
    /\ pipe.stage \in {"none", "returned", "article", "raised"}
    /\ pipe' = [IdlePipe EXCEPT
                   !.call = "get_article_by_id",
                   !.stage = IF found = None \/ ~processed
                             THEN "raised" ELSE "article",
                   !.source = IF found = None THEN <<>> ELSE <<Val(found)>>]
    /\ UNCHANGED <<articles, config, fetcher, now, pc, op, cur, ret, result,
                   netlog, prev_call, written, conf, threads>>

ProcessArticleDropFailed(processed) ==
    /\ pipe.stage = "process"
    /\ pc = "idle"
    /\ articles' = IF processed THEN Append(articles, pipe.source[pipe.i])
                   ELSE articles
    /\ pipe' = [pipe EXCEPT
                   !.failed = IF processed THEN @ ELSE @ \cup {pipe.i},
                   !.i = @ + 1,
                   !.stage = IF pipe.i = Len(pipe.source)
                             THEN "rank" ELSE "process"]
    /\ UNCHANGED <<config, fetcher, now, pc, op, cur, ret, result, netlog,
                   prev_call, written, conf, threads>>

\* The loop of lines 79-95 for the article in turn: processed tells whether
\* the metadata and text processors return (the processed copy, with the
\* fields the ranker reads as they were, is appended) or one of them raises
\* (the article as it stands is appended by the handler of line 93).
ProcessArticle(processed) ==
    /\ pipe.stage = "process"
    /\ pc = "idle"
    /\ articles' = Append(articles, pipe.source[pipe.i])
    /\ pipe' = [pipe EXCEPT
                   !.failed = IF processed THEN @ ELSE @ \cup {pipe.i},
                   !.i = @ + 1,
                   !.stage = IF pipe.i = Len(pipe.source)
                             THEN "rank" ELSE "process"]
    /\ UNCHANGED <<config, fetcher, now, pc, op, cur, ret, result, netlog,
                   prev_call, written, conf, threads>>

\* Lines 100-104: rank_articles on processed_articles.
RankProcessed ==
    /\ pipe.stage = "rank"
    /\ pc = "idle"
    /\ RankArticles(Len(articles), pipe.query, pipe.weights)

\* Lines 104-108: rank_articles has returned and its list is returned, or
\* it has raised and the exception leaves search_and_rank.
SearchAndRankReturn ==
    /\ pipe.stage = "rank"
    /\ op.kind = "rank"
    /\ pc \in {"done", "raised"}
    /\ pipe' = [pipe EXCEPT
                   !.stage = IF pc = "done" THEN "returned" ELSE "raised",
                   !.result = IF pc = "done" THEN Val(result) ELSE <<>>]
    /\ UNCHANGED <<articles, config, fetcher, now, pc, op, cur, ret, result,
                   netlog, prev_call, written, conf, threads>>

----------------------------------------------------------------------------
(* Spec: the ranker and the client driven by one caller, with a registry   *)
(* that answers at once (the delay is 0, time stands still).               *)

EmptyWeights == [k \in {} |-> 0]

WeightArgs ==
    {None, Some(EmptyWeights), Some([recency |-> 10]),
     Some([relevance |-> 7, citations |-> 1]),
     Some([recency |-> 10, popularity |-> 5])}

Queries == {"", "q"}

\* The (query, weights) arguments the caller passes.
CallArgs ==
    {<<"", None>>, <<"q", None>>, <<"", Some(EmptyWeights)>>,
     <<"", Some([recency |-> 10])>>,
     <<"q", Some([relevance |-> 7, citations |-> 1])>>,
     <<"", Some([recency |-> 10, popularity |-> 5])>>}

DocPool ==
    {Doc("D", "X", TitleAb, IsoDate(Today), None),
     Doc("", "X", <<>>, NoDate("garbage"), None),
     Doc("D", "", TitleAb, IsoDate(Today - 365), Some(0)),
     Doc("", "", <<>>, NoDate("nonstr"), None)}

Init == InitWith({DefaultConfig}, DocPool)

Next ==
    \/ \E n \in {0, Len(articles)}, args \in CallArgs :
          RankArticles(n, args[1], args[2])
    \/ \E embedded \in BOOLEAN : CalculateScore(embedded)
    \/ \E a \in 1..Len(articles) : CallGetCitationCount(a)
    \/ GetCitationCount
    \/ \E resp \in LookupResponses \cup SearchResponses : Fetch(resp)
    \/ ReturnCount
    \/ CitationScoreReturn
    \/ FreshFetcher

Spec == Init /\ [][Next]_vars

----------------------------------------------------------------------------
(* SpecTimed: the same calls against a client with a positive delay, while *)
(* time passes between the steps; the ranker is called with its defaults.  *)

TimedConfigs ==
    {[DefaultConfig EXCEPT !.citation.rate_limit_delay = r] : r \in {1, 2}}

TimedPool ==
    {Doc("D", "X", TitleAb, NoDate("absent"), None),
     Doc("", "X", <<>>, NoDate("absent"), None),
     Doc("D", "X", TitleAb, NoDate("absent"), Some(1))}

InitTimed == InitWith(TimedConfigs, TimedPool)

NextTimed ==
    \/ RankArticles(Len(articles), "", None)
    \/ \E embedded \in BOOLEAN : CalculateScore(embedded)
    \/ \E a \in 1..Len(articles) : CallGetCitationCount(a)
    \/ GetCitationCount
    \/ \E resp \in LookupResponses \cup SearchResponses : Fetch(resp)
    \/ ReturnCount
    \/ CitationScoreReturn
    \/ FreshFetcher
    \/ Tick

SpecTimed == InitTimed /\ [][NextTimed]_vars

----------------------------------------------------------------------------
(* SpecScores: the score functions on documents that carry their count,    *)
(* under the configurations a user file can produce.                       *)

\* What the user file holds: a decay constant, or a decay constant and a
\* normalization maximum.
ScoreUserConfigs ==
    {Some([ranking |-> [recency_decay_days |-> d]]) : d \in {2, 0, -2}}
        \cup {Some([ranking  |-> [recency_decay_days |-> 2],
                    citation |-> [normalization_max_citations |-> m]]) :
                    m \in {1, 3}}

\* Documents by publication date and cached count: published today, one
\* and two days ago, tomorrow, today with a 'Z' suffix, and without a
\* usable date.
ScorePool ==
    {Doc("", "", TitleAb, IsoDate(Today), Some(0)),
     Doc("", "", TitleAb, IsoDate(Today - 1), Some(1)),
     Doc("", "", TitleAb, IsoDate(Today - 2), Some(2)),
     Doc("", "", TitleAb, IsoDate(Today + 1), Some(3)),
     Doc("", "", TitleAb, IsoDateZ(Today), Some(9)),
     Doc("", "", <<>>, NoDate("absent"), Some(1)),
     Doc("", "", <<>>, NoDate("garbage"), Some(3))}

ScoreArgs ==
    {<<"", Some([recency |-> 10])>>, <<"", Some([citations |-> 10])>>,
     <<"q", None>>}

InitScores == InitWith({load(u) : u \in ScoreUserConfigs}, ScorePool)

NextScores ==
    \/ \E args \in ScoreArgs : RankArticles(Len(articles), args[1], args[2])
    \/ \E embedded \in BOOLEAN : CalculateScore(embedded)

SpecScores == InitScores /\ [][NextScores]_vars

----------------------------------------------------------------------------
(* SpecDisabled: the ranker under a configuration that disables citations, *)
(* constructed with or without a client of the caller.                     *)

DisabledUserConfigs == {Some([citation |-> [enabled |-> FALSE]])}

DisabledPool ==
    {Doc("D", "X", TitleAb, IsoDate(Today), None),
     Doc("D", "", TitleAb, IsoDate(Today - 365), Some(1)),
     Doc("", "", <<>>, NoDate("absent"), None)}

InitDisabled ==
    InitGiven({load(u) : u \in DisabledUserConfigs}, DisabledPool,
              {None, Some(NewCitationFetcher(0))})

NextDisabled ==
    \/ \E n \in {0, Len(articles)}, args \in CallArgs :
          RankArticles(n, args[1], args[2])
    \/ \E embedded \in BOOLEAN : CalculateScore(embedded)

SpecDisabled == InitDisabled /\ [][NextDisabled]_vars

----------------------------------------------------------------------------
(* SpecPipeline: search_and_rank calls of one pipeline with the default    *)
(* configuration.  The document source delivers arXiv articles: an arXiv   *)
(* id, a title, a DOI or none, and a datetime object as published.         *)

SourcePool ==
    {Doc("D", "X", TitleAb, NoDate("datetime"), None),
     Doc("", "X", TitleAb, NoDate("datetime"), None)}

\* What scraper.search_articles does: it returns a list or raises.
Found == {None} \cup {Some(found) : found \in DocLists(SourcePool)}

\* What scraper.get_article_by_id does: it returns an article or raises.
FoundById == {None} \cup {Some(found) : found \in SourcePool}

PipeArgs == {<<"q", None>>, <<"q", Some([recency |-> 3, citations |-> 7])>>}

InitPipeline == InitWith({DefaultConfig}, {})

NextPipeline ==
    \/ \E args \in PipeArgs, found \in Found :
          SearchAndRank(args[1], args[2], found)
    \/ \E found \in FoundById, processed \in BOOLEAN :
          GetArticleById(found, processed)
    \/ \E processed \in BOOLEAN : ProcessArticle(processed)
    \/ RankProcessed
    \/ \E embedded \in BOOLEAN : CalculateScore(embedded)
    \/ GetCitationCount
    \/ \E resp \in LookupResponses \cup SearchResponses : Fetch(resp)
    \/ CitationScoreReturn
    \/ SearchAndRankReturn

SpecPipeline == InitPipeline /\ [][NextPipeline]_vars

----------------------------------------------------------------------------
(* Properties of rank_articles. *)

Returned == pc = "done" /\ op.kind = "rank" /\ op.n > 0

Ranking == Val(result)

\* The citation score the ranker gives an article in its present state.
CitationsOf(article) ==
    IF ~is_citation_enabled(config) \/ fetcher = None
    THEN 0
    ELSE CitationScore(article.citation_count, config)

\* The weighted sum of the three signals of an article, taken over the
\* signals that are keys of weights only; citations is its citation score.
WeightedSumWith(article, weights, citations) ==
      (IF "relevance" \in DOMAIN weights
       THEN weights["relevance"] * RelevanceOf(article) ELSE 0)
    + (IF "recency" \in DOMAIN weights
       THEN weights["recency"] * RecencyScore(article, config) ELSE 0)
    + (IF "citations" \in DOMAIN weights
       THEN weights["citations"] * citations ELSE 0)

WeightedSum(article, weights) ==
    WeightedSumWith(article, weights, CitationsOf(article))

\* C1: when rank_articles returns for a non-empty list, the result holds
\* every input document exactly once, each paired with a score, in
\* descending order of score, and documents of equal score are in their
\* input order.  (A weight map with a key that is no signal, or a document
\* that makes scoring raise, ends the call without a result.)
C1_RankIsStableSortedPermutation ==
    Returned =>
        /\ Len(Ranking) = op.n
        /\ \A a \in 1..op.n : \E k \in 1..Len(Ranking) : Ranking[k].article = a
        /\ \A j, k \in 1..Len(Ranking) :
              j < k => /\ Ranking[j].score >= Ranking[k].score
                       /\ Ranking[j].score = Ranking[k].score
                             => Ranking[j].article < Ranking[k].article
        /\ op.weights # EmptyWeights
        /\ DOMAIN op.weights \subseteq Signals

C1_Witness ==
    /\ Returned
    /\ op.weights_from = "argument"
    /\ Len(Ranking) = op.n
    /\ \E j, k \in 1..Len(Ranking) :
          /\ j < k
          /\ Ranking[j].score = Ranking[k].score
          /\ Ranking[j].score > 0
          /\ Ranking[j].article < Ranking[k].article

\* C9: the total score of every returned pair is the sum of
\* weights[s] * score[s] over the signals s that are keys of the weight map
\* in use; the other signals add nothing.
C9_TotalIsSumOverWeightKeys ==
    Returned =>
        \A k \in 1..Len(Ranking) :
            Ranking[k].score
                = WeightedSum(articles[Ranking[k].article], op.weights)

C9_Witness ==
    /\ Returned
    /\ "citations" \notin DOMAIN op.weights
    /\ \E k \in 1..Len(Ranking) :
          /\ CitationsOf(articles[Ranking[k].article]) > 0
          /\ Ranking[k].score > 0
          /\ Ranking[k].score
                = WeightedSum(articles[Ranking[k].article], op.weights)

\* C10: when the caller passes a weight map, every document is scored with
\* exactly that map and the configured weights are not read; they are read
\* only when the argument is omitted.
C10_PassedWeightsUsedVerbatim ==
    Returned =>
        IF op.arg # None
        THEN /\ op.weights_from = "argument"
             /\ \A k \in 1..Len(Ranking) :
                   Ranking[k].score
                       = WeightedSum(articles[Ranking[k].article],
                                     Val(op.arg))
        ELSE op.weights_from = "config"

\* C8: rank_articles on an empty list returns an empty list at once: no
\* exception, no lookup, the client and the documents untouched, and the
\* configured weights not read.
C8_EmptyListReturnsAtOnce ==
    [][\A q \in Queries, w \in WeightArgs :
          RankArticles(0, q, w) =>
              /\ pc' = "done"
              /\ result' = Some(<<>>)
              /\ netlog' = <<>>
              /\ fetcher' = fetcher
              /\ prev_call' = prev_call
              /\ articles' = articles
              /\ op'.weights_from = "none"]_vars

C8_Witness ==
    /\ pc = "done"
    /\ op.kind = "rank"
    /\ op.n = 0
    /\ result = Some(<<>>)
    /\ Len(articles) > 0
    /\ fetcher # None
    /\ Val(fetcher).last_request_time > 0

----------------------------------------------------------------------------
(* Properties of get_citation_count. *)

IsPrefix(s, t) == Len(s) <= Len(t) /\ \A k \in 1..Len(s) : s[k] = t[k]

\* The sub-lookups issued for article a in log, in order.
MethodsIssued(log, a) ==
    LET sel == SelectSeq(log, LAMBDA e : e.article = a)
    IN  [k \in 1..Len(sel) |-> sel[k].method]

AllIds(article) ==
    article.doi # "" /\ article.arxiv_id # "" /\ article.title # <<>>

Uncached(article) == article.citation_count = None

\* The registry answers a lookup by identifier with a count.
ReturnsCount(resp) == resp.status = 200 /\ resp.field \in {"value", "missing"}

Appended == Len(netlog') = Len(netlog) + 1

\* C2: for an uncached document with DOI, arXiv id and title, the DOI
\* lookup is issued first; a DOI answer with a count ends the call with
\* that count; any other DOI answer is followed by the arXiv-id lookup;
\* the title search is issued only after the arXiv-id lookup has given no
\* count; and nothing is issued once the call has its return value.
C2_FallbackOrder ==
    [][LET a == cur.article
       IN  /\ (pc = "get" /\ AllIds(articles[a]) /\ Uncached(articles[a]))
                 => pc' = "fetch" /\ cur'.method = "doi" /\ netlog' = netlog
           /\ (pc = "fetch" /\ AllIds(articles[a]) /\ ~UNCHANGED vars)
                 => /\ Appended
                    /\ IsPrefix(MethodsIssued(netlog', a),
                                <<"doi", "arxiv_id", "title">>)
                    /\ \A resp \in LookupResponses :
                          (Fetch(resp) /\ cur.method # "title")
                             => IF ReturnsCount(resp)
                                THEN pc' = "got" /\ ret' # None
                                ELSE /\ pc' = "fetch"
                                     /\ cur'.method =
                                           IF cur.method = "doi"
                                           THEN "arxiv_id" ELSE "title"
           /\ pc = "got" => (netlog' = netlog \/ netlog' = <<>>)]_vars

C2_Witness ==
    /\ pc = "got"
    /\ AllIds(articles[cur.article])
    /\ MethodsIssued(netlog, cur.article) = <<"doi", "arxiv_id">>
    /\ ret # None

\* C3: get_citation_count on a document with a cached count returns the
\* cached count and issues no network call, at every call.
C3_CachedCountNoNetwork ==
    (op.kind = "get" /\ ~Uncached(articles[cur.article]))
        => /\ netlog = <<>>
           /\ pc # "fetch"
           /\ pc = "done" => result = Some(articles[cur.article].citation_count)

C3_Witness ==
    /\ op.kind = "get"
    /\ pc = "done"
    /\ AllIds(articles[cur.article])
    /\ articles[cur.article].citation_count = Some(0)
    /\ result = Some(Some(0))
    /\ Val(fetcher).last_request_time > 0

\* C5: in one get_citation_count call no sub-lookup is issued twice, and a
\* sub-lookup that fails (not found, another error status, an exception or
\* timeout) gives no count, does not end the call with an exception, and is
\* followed by the next sub-lookup the document has an identifier for.
C5_FailuresNotRetriedNotRaised ==
    [][/\ \A j, k \in 1..Len(netlog') :
             (/\ netlog'[j].article = netlog'[k].article
              /\ netlog'[j].method = netlog'[k].method) => j = k
       /\ \A resp \in Failures :
             Fetch(resp) =>
                LET article == articles[cur.article]
                    issued == MethodsIssued(netlog', cur.article)
                    rest == {m \in {"doi", "arxiv_id", "title"} :
                                /\ Present(article, m)
                                /\ m \notin {issued[k] :
                                                k \in 1..Len(issued)}}
                IN  /\ ret' = None
                    /\ cur'.article = cur.article
                    /\ IF rest = {}
                       THEN pc' = "got"
                       ELSE pc' = "fetch" /\ cur'.method \in rest]_vars

C5_Witness ==
    /\ pc = "fetch"
    /\ cur.method = "title"
    /\ MethodsIssued(netlog, cur.article) = <<"doi", "arxiv_id">>

\* C6: a sub-lookup that fails when the document has no identifier left to
\* try makes get_citation_count return None; the caller receives None,
\* and the ranker leaves the document without count, gives it citation
\* score 0.0 and goes on to a scored pair for it without raising.
C6_UnresolvedScoresZero ==
    [][/\ \A resp \in Failures :
             (/\ Fetch(resp)
              /\ \A k \in (MethodIndex(cur.method) + 1)..3 :
                    ~Present(articles[cur.article],
                             <<"doi", "arxiv_id", "title">>[k]))
                => pc' = "got" /\ ret' = None
       /\ (pc = "got" /\ ret = None /\ op.kind = "get")
             => pc' = "done" /\ result' = Some(None)
       /\ (pc = "got" /\ ret = None /\ op.kind = "rank"
              /\ DOMAIN op.weights \subseteq Signals)
             => /\ pc' \in {"score", "done"}
                /\ articles' = articles
                /\ Len(op'.scored) = op.i
                /\ op'.scored[op.i] =
                      [article |-> op.i,
                       score |-> WeightedSumWith(articles[op.i],
                                                 op.weights, 0)]
                /\ pc' = "done" =>
                      \E k \in 1..Len(Val(result')) :
                          Val(result')[k] = op'.scored[op.i]]_vars

C6_Witness ==
    /\ Returned
    /\ \E a \in 1..op.n :
          /\ AllIds(articles[a])
          /\ Uncached(articles[a])
          /\ MethodsIssued(netlog, a) = <<"doi", "arxiv_id", "title">>
          /\ \E k \in 1..Len(Ranking) :
                /\ Ranking[k].article = a
                /\ Ranking[k].score
                      = WeightedSumWith(articles[a], op.weights, 0)

\* C7: once the ranker has written a count (0 included) to a document, no
\* later step of any call, with the same or with a fresh client, issues a
\* network call for that document, and the count stays.
C7_NoLookupAfterWriteBack ==
    [][\A a \in written :
          /\ Len(netlog') > Len(netlog)
                => netlog'[Len(netlog')].article # a
          /\ articles'[a].citation_count = articles[a].citation_count
          /\ articles[a].citation_count # None
          /\ a \in written']_vars

C7_Witness ==
    /\ Returned
    /\ netlog = <<>>
    /\ \E a \in written :
          /\ a <= op.n
          /\ articles[a].citation_count = Some(0)
    /\ Val(fetcher).last_request_time = 0

----------------------------------------------------------------------------
(* Properties of the rate limit, under SpecTimed. *)

Delay == Val(fetcher).rate_limit_delay

\* C4: every network call of a client starts at least rate_limit_delay
\* after the previous network call of that client, whatever document and
\* sub-lookup the two belong to; so the calls of one rank_articles or
\* get_citation_count call, k apart in sequence, start at least
\* k * rate_limit_delay apart.
C4_CallsAtLeastDelayApart ==
    fetcher # None =>
        /\ \A k \in 1..Len(netlog) :
              /\ netlog[k].prev # None
                    => netlog[k].at - Val(netlog[k].prev) >= Delay
              /\ k > 1 => netlog[k].prev = Some(netlog[k - 1].at)
        /\ \A j, k \in 1..Len(netlog) :
              j < k => netlog[k].at - netlog[j].at >= (k - j) * Delay
        /\ prev_call # None => now >= Val(prev_call)

C4_Witness ==
    /\ Len(netlog) >= 2
    /\ netlog[1].prev # None
    /\ netlog[1].at - Val(netlog[1].prev) = Delay
    /\ netlog[2].article # netlog[1].article
    /\ netlog[2].at - netlog[1].at > Delay

----------------------------------------------------------------------------
(* Properties of the failure policy. *)

\* C11: a rank_articles call whose weight map names signals only never ends
\* with an exception, whatever the documents' publication dates, the
\* embedding collaborator and the registry do: it returns a pair for every
\* document, and a document whose date is absent, null, no string or no ISO
\* date has recency score 0.0 with its other signals computed.
C11_ScoringFailureNeverAborts ==
    (op.kind = "rank" /\ DOMAIN op.weights \subseteq Signals) =>
        /\ pc # "raised"
        /\ Returned =>
              /\ Len(Ranking) = op.n
              /\ Len(op.scores) = op.n
              /\ \A a \in 1..op.n :
                    articles[a].published.tag # "naive"
                        => op.scores[a].recency = 0

----------------------------------------------------------------------------
(* Properties of the score functions, under SpecScores. *)

Decay == get_recency_decay_days(config)

\* The published value is a string datetime.fromisoformat accepts once a
\* 'Z' suffix is replaced: with or without an offset.
Parsable(article) == article.published.tag \in {"naive", "aware"}

AgeDays(article) == Today - article.published.day

\* The scores dict of the a-th document of the running or last call.
ScoresOf(a) == op.scores[a]

\* C12: with a positive decay constant, the recency score of a scored
\* document is 0.0 exactly when it has no published field or a published
\* string that is no ISO-8601 timestamp; a document with a parsable
\* timestamp, with or without 'Z' or an offset, has the score
\* exp(-age_days / decay_days), which is positive.
C12_RecencyZeroIffNoUsableDate ==
    (op.kind = "rank" /\ Decay > 0) =>
        \A a \in 1..Len(op.scores) :
            IF Parsable(articles[a])
            THEN /\ ScoresOf(a).recency > 0
                 /\ ScoresOf(a).recency
                        = NpExpNeg(AgeDays(articles[a]), Decay)
            ELSE ScoresOf(a).recency = 0

----------------------------------------------------------------------------
(* Properties of a ranker with citations disabled, under SpecDisabled. *)

\* C13: with citation.enabled false, whether or not a client was passed to
\* the ranker, every step of rank_articles leaves the documents and the
\* client as they are, issues no lookup and never enters
\* get_citation_count, and every citation score it computes is 0.0, also
\* for a document with a cached count.
C13_DisabledNoCitations ==
    [][config.citation.enabled = FALSE =>
          /\ articles' = articles
          /\ fetcher' = fetcher
          /\ netlog' = <<>>
          /\ written' = {}
          /\ pc' \notin {"get", "fetch", "got"}
          /\ \A a \in 1..Len(op'.scores) : op'.scores[a].citations = 0]_vars

C13_Witness ==
    /\ Returned
    /\ config.citation.enabled = FALSE
    /\ fetcher # None
    /\ "citations" \in DOMAIN op.weights
    /\ \E a, b \in 1..op.n :
          /\ AllIds(articles[a])
          /\ Uncached(articles[a])
          /\ articles[b].citation_count = Some(1)
          /\ ScoresOf(b).citations = 0

----------------------------------------------------------------------------
(* Properties of the title search and of the write-back, under Spec. *)

\* The titles that equal "Ab" after case folding.
FoldsToAb(title) ==
    title \in {<<"A", "b">>, <<"a", "B">>, <<"a", "b">>, <<"A", "B">>}

\* C14: the title search (for the title "Ab") gives a count only when the
\* registry answers with success and a first hit whose title is "Ab" up to
\* case, and then the count of that hit (0 when the hit has no count
\* field); with no hit, a first hit with a shorter or no title, an error
\* status or an exception it gives None, and get_citation_count returns.
C14_TitleSearchExactMatchOnly ==
    [][\A resp \in SearchResponses :
          (/\ Fetch(resp)
           /\ cur.method = "title"
           /\ articles[cur.article].title = TitleAb)
             => /\ pc' = "got"
                /\ IF /\ resp.status = 200
                      /\ resp.hit
                      /\ FoldsToAb(resp.title)
                      /\ resp.field # "null"
                   THEN ret' = Some(IF resp.field = "value"
                                    THEN resp.count ELSE 0)
                   ELSE ret' = None]_vars

C14_Witness ==
    /\ pc = "got"
    /\ cur.method = "title"
    /\ articles[cur.article].title = TitleAb
    /\ netlog # <<>>
    /\ netlog[Len(netlog)].method = "title"
    /\ ret = Some(1)

\* C15: a step changes a caller's document only by setting citation_count,
\* only in rank_articles for the document being scored, only when that
\* document had no count and get_citation_count returned one, and to that
\* count; the list keeps its length and every other field its value.
C15_OnlyCountWriteBack ==
    [][/\ Len(articles') = Len(articles)
       /\ \A a \in 1..Len(articles) :
             \/ articles'[a] = articles[a]
             \/ /\ op.kind = "rank"
                /\ pc = "got"
                /\ a = op.i
                /\ articles[a].citation_count = None
                /\ ret # None
                /\ articles'[a] = [articles[a] EXCEPT !.citation_count = ret]
                /\ \A f \in {"doi", "arxiv_id", "title", "published"} :
                      articles'[a][f] = articles[a][f]]_vars

C15_Witness ==
    /\ Returned
    /\ op.n = 2
    /\ written = {1}
    /\ articles[1].citation_count = Some(1)
    /\ articles[2].citation_count = None
    /\ MethodsIssued(netlog, 2) # <<>>

\* C16: every score the ranker computes for a signal of a document lies in
\* [0, 1], for every configuration the loader produces and every document,
\* a document dated in the future included.
C16_SignalScoresInUnitInterval ==
    op.kind = "rank" =>
        \A a \in 1..Len(op.scores), s \in Signals :
            ScoresOf(a)[s] >= 0 /\ ScoresOf(a)[s] <= SCALE

MaxCitations == get_max_citations_for_normalization(config)

CountOf(a) == Val(articles[a].citation_count)

\* C17: with a positive normalization maximum, the citation score of a
\* document with count 0 is 0.0, a document with no smaller count than
\* another has no smaller citation score, and no citation score exceeds
\* 1.0, also for a count above the maximum.
C17_CitationScoreMonotoneClamped ==
    (op.kind = "rank" /\ MaxCitations > 0) =>
        \A a, b \in 1..Len(op.scores) :
            /\ CountOf(a) = 0 => ScoresOf(a).citations = 0
            /\ CountOf(a) <= CountOf(b)
                  => ScoresOf(a).citations <= ScoresOf(b).citations
            /\ ScoresOf(a).citations <= SCALE
            /\ ScoresOf(a).citations >= 0

C17_Witness ==
    /\ Returned
    /\ MaxCitations = 3
    /\ \E a, b \in 1..op.n :
          /\ CountOf(a) = 1
          /\ ScoresOf(a).citations = 500
          /\ CountOf(b) > MaxCitations
          /\ ScoresOf(b).citations = SCALE

\* C18: with a positive decay constant, a scored document with a parsable
\* timestamp of age 0 has recency score 1.0, and of two such documents the
\* one fewer days old has the higher recency score; so a call with weights
\* {recency: 1} and no query returns the documents with parsable
\* timestamps youngest first.
C18_RecencyStrictlyDecreasing ==
    (op.kind = "rank" /\ Decay > 0) =>
        /\ \A a, b \in 1..Len(op.scores) :
              (Parsable(articles[a]) /\ Parsable(articles[b])) =>
                  /\ AgeDays(articles[a]) = 0 => ScoresOf(a).recency = SCALE
                  /\ AgeDays(articles[a]) < AgeDays(articles[b])
                        => ScoresOf(a).recency > ScoresOf(b).recency
        /\ (Returned /\ op.query = "" /\ op.arg = Some([recency |-> 10])) =>
              \A j, k \in 1..Len(Ranking) :
                  (/\ j < k
                   /\ Parsable(articles[Ranking[j].article])
                   /\ Parsable(articles[Ranking[k].article]))
                      => AgeDays(articles[Ranking[j].article])
                            <= AgeDays(articles[Ranking[k].article])

\* C19: no ranker runs with a recency_decay_days that is not positive: the
\* loader rejects such a configuration, so a rank_articles call never
\* meets it, neither as an exception of the call nor as an accepted value.
C19_NonPositiveDecayRejectedAtLoad ==
    op.kind = "rank" => Decay > 0

----------------------------------------------------------------------------
(* Properties of search_and_rank, under SpecPipeline. *)

\* C20: when rank_articles returns it returns as many pairs as it was
\* given documents, and when search_and_rank returns it returns exactly
\* one pair for every article of the document source, an article whose
\* processing raised included, each the article the source delivered.
C20_CardinalityPreserved ==
    /\ Returned => Len(Ranking) = op.n /\ op.n = Len(articles)
    /\ pipe.stage = "returned" =>
          /\ Len(pipe.result) = Len(pipe.source)
          /\ Len(articles) = Len(pipe.source)
          /\ \A k \in 1..Len(pipe.source) :
                /\ Cardinality({j \in 1..Len(pipe.result) :
                                   pipe.result[j].article = k}) = 1
                /\ \A f \in {"doi", "arxiv_id", "title", "published"} :
                      articles[k][f] = pipe.source[k][f]

C20_Witness ==
    /\ pipe.stage = "returned"
    /\ Len(pipe.source) = 2
    /\ pipe.failed = {1}
    /\ Len(pipe.result) = 2
    /\ pipe.result[1].article = 2

----------------------------------------------------------------------------
(* SpecConfig: a ConfigLoader constructed from a file, then read with get.  *)

\* The documented defaults of the keys the ranker reads, by dot-path.
DefaultAt ==
    (<<"ranking", "weights", "relevance">> :> 5)
    @@ (<<"ranking", "weights", "recency">> :> 3)
    @@ (<<"ranking", "weights", "citations">> :> 2)
    @@ (<<"ranking", "recency_decay_days">> :> 730)
    @@ (<<"citation", "enabled">> :> TRUE)
    @@ (<<"citation", "rate_limit_delay">> :> 0)
    @@ (<<"citation", "normalization_max_citations">> :> 1000)

RecognizedKeys == DOMAIN DefaultAt

NoSetting == [key \in {} |-> 0]

\* A file at config_path.  kind: "absent" (no file), "unreadable" (open or
\* the YAML parser raises), "list" (well-formed YAML whose top level is no
\* mapping), "dict" (a mapping, dict; an empty file is the empty mapping).
\* sets lists the dot-paths of the scalars the mapping holds.
ConfigFile(kind, dict, sets) ==
    [kind |-> kind, dict |-> dict, sets |-> sets]

ConfigFiles ==
    {ConfigFile(kind, NoSetting, NoSetting) :
        kind \in {"absent", "unreadable", "list"}}
    \cup
    {ConfigFile("dict", NoSetting, NoSetting),
     ConfigFile("dict", [ranking |-> [weights |-> [relevance |-> 8]]],
                <<"ranking", "weights", "relevance">> :> 8),
     ConfigFile("dict", [citation |-> [enabled |-> FALSE]],
                <<"citation", "enabled">> :> FALSE),
     ConfigFile("dict", [ranking |-> [recency_decay_days |-> 365], extra |-> 1],
                (<<"ranking", "recency_decay_days">> :> 365)
                @@ (<<"extra">> :> 1)),
     ConfigFile("dict", [citation |-> [rate_limit_delay |-> 1, bogus |-> 7]],
                (<<"citation", "rate_limit_delay">> :> 1)
                @@ (<<"citation", "bogus">> :> 7)),
     ConfigFile("dict", [ranking |-> Scalar(5)], NoSetting),
     ConfigFile("dict", [ranking |-> [weights |-> Scalar(0)]], NoSetting)}

\* ConfigLoader.__init__ and load on the file: the defaults when there is no
\* file or when reading or merging raises (merging a list raises), else the
\* merge of the mapping into the defaults.
LoadFile(file) ==
    load(IF file.kind = "dict" THEN Some(file.dict) ELSE None)

\* config.get(key, default)
ConfigGet(key, default) ==
    /\ conf' = [conf EXCEPT !.path = key, !.default = default,
                            !.value = get(config, key, default),
                            !.called = TRUE]
    /\ UNCHANGED <<articles, config, fetcher, now, pc, op, cur, ret, result,
                   netlog, prev_call, written, pipe, threads>>

\* A default a caller may pass for a recognized key that differs from the
\* documented one.
OtherDefault(key) == IF key = <<"citation", "enabled">> THEN FALSE ELSE -1

UnknownPaths ==
    {<<"nonexistent", "key">>, <<"ranking", "nope">>, <<"extra">>,
     <<"citation", "bogus">>, <<"ranking", "weights", "relevance", "deeper">>}

GetArgs ==
    {<<key, DefaultAt[key]>> : key \in RecognizedKeys}
    \cup {<<key, OtherDefault(key)>> : key \in RecognizedKeys}
    \cup (UnknownPaths \X {0, -1})

InitConfig ==
    /\ conf \in {[IdleConf EXCEPT !.file = file] : file \in ConfigFiles}
    /\ config = LoadFile(conf.file)
    /\ articles = <<>>
    /\ fetcher = RankerFetcher(config)
    /\ now = Epoch
    /\ pc = "idle"
    /\ op = IdleOp
    /\ cur = IdleCur
    /\ ret = None
    /\ result = None
    /\ netlog = <<>>
    /\ prev_call = None
    /\ written = {}
    /\ pipe = IdlePipe
    /\ threads = IdleThreads

NextConfig == \E args \in GetArgs : ConfigGet(args[1], args[2])

SpecConfig == InitConfig /\ [][NextConfig]_vars

\* C21: whatever the file (absent, unreadable, malformed, partial, with
\* unknown keys), every recognized key is readable: a get call returns the
\* file's value for a dot-path the file sets, the documented default for a
\* recognized key the file does not set, whatever default the caller passes
\* (the merge keeps the siblings of an overridden nested key), and the
\* caller's default for a dot-path that does not exist; the weight map the
\* ranker gets has the three signals.
C21_EveryKeyReadable ==
    /\ conf.called =>
          conf.value =
             IF conf.path \in DOMAIN conf.file.sets
             THEN conf.file.sets[conf.path]
             ELSE IF conf.path \in RecognizedKeys
             THEN DefaultAt[conf.path]
             ELSE conf.default
    /\ conf.file.kind # "given" =>
          /\ DOMAIN get_ranking_weights(config) = Signals
          /\ \A s \in Signals :
                get_ranking_weights(config)[s] =
                   LET key == <<"ranking", "weights", s>>
                   IN  IF key \in DOMAIN conf.file.sets
                       THEN conf.file.sets[key] ELSE DefaultAt[key]

----------------------------------------------------------------------------
(* Properties of the lookup client and of the ranker's use of it. *)

\* The sub-lookups get_citation_count has for an article, in order.
Chain(article) == SelectSeq(Methods, LAMBDA m : Present(article, m))

\* The calls of log are the first calls of the article's chain, every call
\* but the last returned no count, and count is what the last call returned
\* if it returned one, else the chain is used up and there is no count.
ChainRun(log, article, count) ==
    LET chain == Chain(article)
        k == Len(log)
    IN  /\ k <= Len(chain)
        /\ \A j \in 1..k : log[j].method = chain[j]
        /\ \A j \in 1..(k - 1) : log[j].got = None
        /\ IF k > 0 /\ log[k].got # None
           THEN count = log[k].got
           ELSE k = Len(chain) /\ count = None

\* C22: get_citation_count leaves the document as it is, changes nothing of
\* the client but last_request_time, and what it has issued and returns is
\* fixed by the document and the registry's answers alone (the cached count,
\* or the run of the chain up to the first count), whatever the client has
\* done before.
C22_ClientKeepsNoRecord ==
    [][(op.kind = "get" /\ pc \in {"get", "fetch", "got"}) =>
          /\ articles' = articles
          /\ written' = written
          /\ \/ fetcher' = fetcher
             \/ fetcher' = Some([Val(fetcher) EXCEPT !.last_request_time = now'])
          /\ pc' \in {"got", "done"} =>
                LET article == articles[cur.article]
                IN  IF article.citation_count # None
                    THEN netlog' = <<>> /\ ret' = article.citation_count
                    ELSE ChainRun(netlog', article, ret')]_vars

\* A client that has issued calls before ran the whole chain of an uncached
\* document again, found nothing, and the document is as it was.
C22_Witness ==
    /\ pc = "done" /\ op.kind = "get"
    /\ Uncached(articles[cur.article]) /\ AllIds(articles[cur.article])
    /\ Len(netlog) = 3
    /\ netlog[1].prev # None
    /\ result = Some(None)

----------------------------------------------------------------------------
(* SpecRegistry: the ranker and a direct caller against a registry that     *)
(* also sends a citationCount that is no count.                             *)

RegistryPool ==
    {Doc("D", "", <<>>, NoDate("absent"), None),
     Doc("", "", TitleAb, NoDate("absent"), None)}

InitRegistry == InitWith({DefaultConfig}, RegistryPool)

NextRegistry ==
    \/ \E n \in 0..Len(articles) : RankArticles(n, "", None)
    \/ CalculateScore(TRUE)
    \/ \E a \in 1..Len(articles) : CallGetCitationCount(a)
    \/ GetCitationCount
    \/ \E resp \in Responses("doi") \cup Responses("title") : Fetch(resp)
    \/ ReturnCount
    \/ CitationScoreReturn

SpecRegistry == InitRegistry /\ [][NextRegistry]_vars

\* C23: whatever the documents hold and whatever the registry sends, a value
\* get_citation_count returns is None or a non-negative integer, and a value
\* rank_articles writes to citation_count is a non-negative integer.
C23_CountsAreNonNegative ==
    /\ (pc = "done" /\ op.kind = "get") =>
          \/ Val(result) = None
          \/ Val(Val(result)) >= 0
    /\ \A a \in written : Val(articles[a].citation_count) >= 0

----------------------------------------------------------------------------
(* SpecConcurrent: the callers of Threads run sub-lookups of one shared     *)
(* CitationFetcher at the same time.  _rate_limit takes no lock, so its     *)
(* statements interleave: a caller reads the clock and last_request_time    *)
(* (lines 29-30), sleeps if the delay has not passed (lines 31-32), writes  *)
(* last_request_time (line 33), and then issues requests.get.               *)

\* Lines 29-31: caller t reads the clock and last_request_time.
RateLimitRead(t) ==
    /\ threads[t].pc = "out"
    /\ fetcher # None
    /\ LET f == Val(fetcher)
           current_time == now
           time_since_last == current_time - f.last_request_time
       IN  threads' = [threads EXCEPT ![t] =
              IF time_since_last < f.rate_limit_delay
              THEN [pc |-> "sleep", current_time |-> current_time,
                    wake |-> current_time
                                + (f.rate_limit_delay - time_since_last)]
              ELSE [pc |-> "stamp", current_time |-> current_time,
                    wake |-> current_time]]
    /\ UNCHANGED <<articles, config, fetcher, now, pc, op, cur, ret, result,
                   netlog, prev_call, written, pipe, conf>>

\* Line 32: time.sleep returns when the time asked for has passed.
RateLimitWake(t) ==
    /\ threads[t].pc = "sleep"
    /\ now >= threads[t].wake
    /\ threads' = [threads EXCEPT ![t].pc = "stamp"]
    /\ UNCHANGED <<articles, config, fetcher, now, pc, op, cur, ret, result,
                   netlog, prev_call, written, pipe, conf>>

\* Line 33: self.last_request_time = time.time()
RateLimitStamp(t) ==
    /\ threads[t].pc = "stamp"
    /\ fetcher' = Some([Val(fetcher) EXCEPT !.last_request_time = now])
    /\ threads' = [threads EXCEPT ![t].pc = "request"]
    /\ UNCHANGED <<articles, config, now, pc, op, cur, ret, result, netlog,
                   prev_call, written, pipe, conf>>

\* requests.get of caller t starts (lines 81, 101, 121).  Each caller is
\* followed through one sub-lookup.
Request(t) ==
    /\ threads[t].pc = "request"
    /\ netlog' = Append(netlog, [article |-> t, method |-> "doi",
                                 at |-> now, prev |-> prev_call,
                                 got |-> None])
    /\ prev_call' = Some(now)
    /\ threads' = [threads EXCEPT ![t].pc = "called"]
    /\ UNCHANGED <<articles, config, fetcher, now, pc, op, cur, ret, result,
                   written, pipe, conf>>

InitConcurrent == InitWith(TimedConfigs, {})

NextConcurrent ==
    \/ \E t \in Threads : RateLimitRead(t)
    \/ \E t \in Threads : RateLimitWake(t)
    \/ \E t \in Threads : RateLimitStamp(t)
    \/ \E t \in Threads : Request(t)
    \/ Tick

SpecConcurrent == InitConcurrent /\ [][NextConcurrent]_vars

\* C24: with two callers on the same client, in every interleaving of their
\* _rate_limit steps, every network call starts at least rate_limit_delay
\* after the network call before it.
C24_ConcurrentCallsDelayApart ==
    \A j, k \in 1..Len(netlog) :
        j < k => netlog[k].at - netlog[j].at >= Delay

----------------------------------------------------------------------------
(* Properties of the pipeline's failure policy, under SpecPipeline. *)

\* The pipeline method has ended with the error of the document source:
\* there is no list, and nothing was taken from the source.
SourceFailed ==
    /\ pipe.stage = "raised"
    /\ pipe.source = <<>>
    /\ pipe.result = <<>>

\* C25: when the document source raises in search_and_rank or in
\* get_article_by_id, the method ends with the error: it returns no list,
\* empty or partial, it processes nothing and it does not call the ranker.
C25_SourceFailurePropagates ==
    [][/\ \A args \in PipeArgs :
             SearchAndRank(args[1], args[2], None) =>
                /\ SourceFailed'
                /\ articles' = <<>> /\ op' = IdleOp /\ pc' = "idle"
                /\ result' = None /\ netlog' = <<>>
       /\ \A processed \in BOOLEAN :
             GetArticleById(None, processed) =>
                /\ SourceFailed'
                /\ UNCHANGED <<articles, op, pc, result, netlog, fetcher>>
      ]_vars

\* The document source failed in a search_and_rank call made after a call
\* that had reached the registry.
C25_Witness ==
    /\ SourceFailed
    /\ pipe.call = "search_and_rank"
    /\ op = IdleOp
    /\ prev_call # None

\* The calls issued for article a in log, in order.
CallsFor(log, a) == SelectSeq(log, LAMBDA e : e.article = a)

\* C26: in every rank_articles call, the first or a later one, a document
\* scored after lookups that all came back without a count still has no
\* citation_count, and a document that has none after being scored had its
\* whole fallback chain issued in this call.
C26_UnresolvedNeverCached ==
    op.kind = "rank" =>
        \A a \in 1..Len(op.scores) :
            LET calls == CallsFor(netlog, a)
            IN  /\ (calls # <<>> /\ \A k \in 1..Len(calls) : calls[k].got = None)
                      => Uncached(articles[a])
                /\ Uncached(articles[a])
                      => ChainRun(calls, articles[a], None)

\* A rank_articles call on a client that had issued calls before ran the
\* whole chain of the only document again, and the document has no count.
C26_Witness ==
    /\ Returned
    /\ Len(articles) = 1
    /\ AllIds(articles[1])
    /\ Uncached(articles[1])
    /\ MethodsIssued(netlog, 1) = <<"doi", "arxiv_id", "title">>
    /\ netlog[1].prev # None
    /\ written = {}

----------------------------------------------------------------------------
(* SpecWeights: rank_articles called with weight maps that leave out the    *)
(* citation signal, give it weight 0, or weigh it.                          *)

WeightsPool ==
    {Doc("D", "", <<>>, IsoDate(Today), None),
     Doc("D", "", TitleAb, IsoDate(Today - 365), None)}

WeightsArgs ==
    {Some([recency |-> 10]), Some([relevance |-> 5, citations |-> 0]),
     Some([citations |-> 10])}

InitWeights == InitWith({DefaultConfig}, WeightsPool)

NextWeights ==
    \/ \E weights \in WeightsArgs : RankArticles(Len(articles), "", weights)
    \/ CalculateScore(TRUE)
    \/ GetCitationCount
    \/ \E resp \in LookupResponses \cup SearchResponses : Fetch(resp)
    \/ CitationScoreReturn

SpecWeights == InitWeights /\ [][NextWeights]_vars

\* C27: whatever the weight map, for every document rank_articles has
\* scored the three signals were computed, and the lookups and the
\* write-back are those of the document alone: no call if it carried a
\* count, else the run of its chain up to the first count, that count
\* written to the document.
C27_LookupsIgnoreWeights ==
    op.kind = "rank" =>
        \A a \in 1..Len(op.scores) :
            LET calls == CallsFor(netlog, a)
                article == articles[a]
            IN  /\ op.scores[a] =
                      [relevance |-> RelevanceOf(article),
                       recency   |-> RecencyScore(article, config),
                       citations |-> CitationScore(article.citation_count,
                                                   config)]
                /\ IF calls = <<>>
                   THEN ~Uncached(article) \/ Chain(article) = <<>>
                   ELSE LET count == calls[Len(calls)].got
                        IN  /\ ChainRun(calls, article, count)
                            /\ article.citation_count = count
                            /\ count # None => a \in written

\* A call whose weight map has no citations key looked the first document
\* up and wrote its count.
C27_Witness ==
    /\ Returned
    /\ "citations" \notin DOMAIN op.weights
    /\ CallsFor(netlog, 1) # <<>>
    /\ 1 \in written
    /\ articles[1].citation_count = Some(1)

\* The weight map in use has a key that is no signal.
UnknownKey ==
    /\ op.kind = "rank"
    /\ op.n > 0
    /\ \E key \in DOMAIN op.weights :
          key \notin {"relevance", "recency", "citations"}

\* C28: a rank_articles call on a non-empty list whose weight map has a key
\* that is no signal never returns a ranking: it raises while the first
\* document is scored, after that document's signals were computed (unless
\* computing them raised), so no pair exists and no other document was
\* looked up; a count the lookups of the first document resolved is on the
\* document.
C28_UnknownKeyRaisesOnFirst ==
    UnknownKey =>
        /\ pc # "done"
        /\ result = None
        /\ op.i = 1
        /\ op.scored = <<>>
        /\ \A a \in 2..Len(articles) : CallsFor(netlog, a) = <<>>
        /\ pc = "raised" =>
              LET calls == CallsFor(netlog, 1)
              IN  /\ \/ Len(op.scores) = 1
                     \/ RecencyRaises(articles[1], config)
                     \/ op.query # ""
                  /\ (calls # <<>> /\ calls[Len(calls)].got # None) =>
                        /\ articles[1].citation_count = calls[Len(calls)].got
                        /\ 1 \in written

\* The call raised on the first of two documents after a lookup had
\* resolved its count, which the document keeps.
C28_Witness ==
    /\ UnknownKey
    /\ pc = "raised"
    /\ op.n = 2
    /\ Len(op.scores) = 1
    /\ CallsFor(netlog, 1) # <<>>
    /\ 1 \in written
    /\ articles[1].citation_count = Some(1)

----------------------------------------------------------------------------
(* SpecBatch: rank_articles runs over the list with the default weights     *)
(* against a registry that answers every call (requests.get returns, or     *)
(* raises at its timeout of 5 seconds).  The code is sequential: a call     *)
(* that has started takes its next step, which the fairness conditions say. *)

BatchPool ==
    {Doc("D", "X", TitleAb, NoDate("absent"), None),
     Doc("", "X", <<>>, NoDate("absent"), None)}

\* The lists of one and of two documents.
BatchLists == [{1} -> BatchPool] \cup [{1, 2} -> BatchPool]

InitBatch ==
    /\ config = DefaultConfig
    /\ articles \in BatchLists
    /\ fetcher = RankerFetcher(config)
    /\ now = Epoch
    /\ pc = "idle"
    /\ op = IdleOp
    /\ cur = IdleCur
    /\ ret = None
    /\ result = None
    /\ netlog = <<>>
    /\ prev_call = None
    /\ written = {}
    /\ pipe = IdlePipe
    /\ conf = IdleConf
    /\ threads = IdleThreads

NextBatch ==
    \/ RankArticles(Len(articles), "", None)
    \/ CalculateScore(TRUE)
    \/ GetCitationCount
    \/ \E resp \in LookupResponses \cup SearchResponses : Fetch(resp)
    \/ CitationScoreReturn

SpecBatch ==
    /\ InitBatch
    /\ [][NextBatch]_vars
    /\ WF_vars(CalculateScore(TRUE))
    /\ WF_vars(GetCitationCount)
    /\ WF_vars(\E resp \in LookupResponses \cup SearchResponses : Fetch(resp))
    /\ WF_vars(CitationScoreReturn)

\* The article has an identifier of the kind the sub-lookup uses.
KindPresent(article, method) ==
    \/ method = "doi" /\ article.doi # ""
    \/ method = "arxiv_id" /\ article.arxiv_id # ""
    \/ method = "title" /\ article.title # <<>>

\* The network calls of the running or last rank_articles call: at most one
\* per kind of identifier the document has, none after a call that returned
\* a count, hence at most 3 per document and 3 * N in all, and in the order
\* of the documents, none for a document not yet reached.
CallsBounded ==
    op.kind = "rank" =>
        /\ \A a \in 1..Len(articles) :
              LET calls == CallsFor(netlog, a)
              IN  /\ Len(calls) <= 3
                  /\ \A k \in 1..Len(calls) :
                        /\ KindPresent(articles[a], calls[k].method)
                        /\ \A j \in 1..(k - 1) :
                              /\ calls[j].method # calls[k].method
                              /\ calls[j].got = None
        /\ Len(netlog) <= 3 * op.n
        /\ \A k \in 1..Len(netlog) :
              /\ netlog[k].article <= op.i
              /\ \A j \in 1..(k - 1) : netlog[j].article <= netlog[k].article

\* C29: a rank_articles call over N documents ends, by returning or by
\* raising, when every network call is answered; and its network calls are
\* bounded as CallsBounded says.
C29_TerminatesWithinCallBudget ==
    /\ []CallsBounded
    /\ (op.kind = "rank" /\ pc \in {"score", "get", "fetch", "got"})
          ~> (pc \in {"done", "raised"})

\* A call over two documents returned after three calls for the first and
\* one for the second.
C29_Witness ==
    /\ Returned
    /\ op.n = 2
    /\ Len(netlog) = 4
    /\ Len(CallsFor(netlog, 1)) = 3

----------------------------------------------------------------------------
(* SpecNoField: rank_articles against a registry whose success answers      *)
(* carry no citationCount key.                                              *)

NoFieldPool ==
    {Doc("D", "X", TitleAb, IsoDate(Today), None),
     Doc("", "X", <<>>, IsoDate(Today), None),
     Doc("", "", TitleAb, IsoDate(Today - 365), None)}

\* The success answers without the key: a paper, a search answer whose
\* first paper has one of the titles, a search answer without papers.
NoFieldResponses ==
    {resp \in LookupResponses \cup SearchResponses :
        resp.status = 200 /\ resp.field = "missing"}

InitNoField == InitWith({DefaultConfig}, NoFieldPool)

NextNoField ==
    \/ RankArticles(Len(articles), "", None)
    \/ CalculateScore(TRUE)
    \/ GetCitationCount
    \/ \E resp \in NoFieldResponses : Fetch(resp)
    \/ CitationScoreReturn

SpecNoField == InitNoField /\ [][NextNoField]_vars

\* The answer is one the sub-lookup takes a count from: any success answer
\* to a lookup by identifier, a first hit with the document's title up to
\* case for the title search.
TakenFrom(resp, method, article) ==
    /\ resp.status = 200
    /\ method = "title" => resp.hit /\ Lower(resp.title) = Lower(article.title)

\* C30: a success answer without a count field, to the DOI or arXiv lookup
\* or as the title-matched first hit, makes get_citation_count return 0 at
\* once, with no further sub-lookup; rank_articles writes 0 to the document
\* and gives it the citation score 0; and no call is issued afterwards for a
\* document that was written.
C30_NoCountFieldIsZero ==
    [][/\ \A resp \in NoFieldResponses :
             (/\ Fetch(resp)
              /\ TakenFrom(resp, cur.method, articles[cur.article]))
                => /\ pc' = "got"
                   /\ ret' = Some(0)
                   /\ cur' = cur
                   /\ netlog'[Len(netlog')].got = Some(0)
       /\ (CitationScoreReturn /\ ret = Some(0))
             => /\ articles'[op.i].citation_count = Some(0)
                /\ op.i \in written'
                /\ Len(op'.scores) = op.i
                /\ op'.scores[op.i].citations = 0
       /\ \A a \in written :
             /\ articles'[a].citation_count = Some(0)
             /\ Len(CallsFor(netlog', a)) <= Len(CallsFor(netlog, a))]_vars

\* A later rank_articles call has scored, with citation score 0 and without
\* a call, a document that got its 0 from an answer without count field.
C30_Witness ==
    /\ Returned
    /\ \E a \in written :
          /\ a <= Len(op.scores)
          /\ articles[a].citation_count = Some(0)
          /\ op.scores[a].citations = 0
          /\ CallsFor(netlog, a) = <<>>

====
